---------------------------- MODULE Spec2Model ----------------------------
(***************************************************************************)
(* The notebook index.ipynb as a state machine: one action per step of its *)
(* cells (load, derive features, build X/y, split, print sizes, fit,       *)
(* predict, residuals, MSE by formula, MSE by sklearn), plus a re-run of   *)
(* the whole notebook.  The state is the file that is read, the seeded     *)
(* generator, and the kernel's namespace (one variable per name the        *)
(* notebook binds).                                                        *)
(*                                                                         *)
(* Numbers.  A float is an exact fraction <<num, den>> in lowest terms     *)
(* with den > 0; <<0, 0>> is NaN (the notebook's only non-finite results   *)
(* come from 0/0 and from np.log of a non-positive number, and every       *)
(* later operation on them gives NaN).  np.log is taken in units of ln 2   *)
(* on weights that are powers of two; the z-score that follows is          *)
(* invariant under that change of unit, and is kept as a sign and an exact *)
(* square.                                                                 *)
(*                                                                         *)
(* Not modelled: displacement, horsepower, cylinders and model year, which *)
(* feed only data_fin, a table nothing reads afterwards.                   *)
(***************************************************************************)
EXTENDS Integers, Sequences, FiniteSets

\* Largest number of rows of an enumerated csv file.
MaxRows == 3

\* Rows of the reference dataset: 313 + 79, the sizes the notebook prints.
DocRows == 392

\* random_state=42 in the train_test_split call.
random_state == 42

----------------------------------------------------------------------------
(* Exact arithmetic on fractions *)

NaN == <<0, 0>>

Abs(a) == IF a < 0 THEN -a ELSE a

Sign(a) == IF a < 0 THEN -1 ELSE IF a = 0 THEN 0 ELSE 1

RECURSIVE GCD(_, _)
GCD(a, b) == IF b = 0 THEN a ELSE GCD(b, a % b)

\* n/d as a float: 0/0 (and, never reached here, x/0) is not finite.
FDiv(n, d) ==
    IF d = 0 THEN NaN
    ELSE LET g == GCD(Abs(n), Abs(d))
             s == IF d < 0 THEN -1 ELSE 1
         IN  <<(s * n) \div g, (s * d) \div g>>

IsFinite(q) == q[2] # 0

QInt(a) == <<a, 1>>

QAdd(p, q) == IF IsFinite(p) /\ IsFinite(q)
              THEN FDiv(p[1] * q[2] + q[1] * p[2], p[2] * q[2]) ELSE NaN

QSub(p, q) == IF IsFinite(p) /\ IsFinite(q)
              THEN FDiv(p[1] * q[2] - q[1] * p[2], p[2] * q[2]) ELSE NaN

QMul(p, q) == IF IsFinite(p) /\ IsFinite(q)
              THEN FDiv(p[1] * q[1], p[2] * q[2]) ELSE NaN

QDivInt(p, n) == IF IsFinite(p) THEN FDiv(p[1], p[2] * n) ELSE NaN

\* Sums by halving, so that a long column does not nest deeply.
RECURSIVE QSumRange(_, _, _)
QSumRange(s, lo, hi) ==
    IF lo > hi THEN QInt(0)
    ELSE IF lo = hi THEN s[lo]
    ELSE LET mid == (lo + hi) \div 2
         IN  QAdd(QSumRange(s, lo, mid), QSumRange(s, mid + 1, hi))

QSum(s) == QSumRange(s, 1, Len(s))

RECURSIVE SumRange(_, _, _)
SumRange(s, lo, hi) ==
    IF lo > hi THEN 0
    ELSE IF lo = hi THEN s[lo]
    ELSE LET mid == (lo + hi) \div 2
         IN  SumRange(s, lo, mid) + SumRange(s, mid + 1, hi)

Sum(s) == SumRange(s, 1, Len(s))

Range(s) == {s[i] : i \in DOMAIN s}

Column(tbl, c) == [i \in DOMAIN tbl |-> tbl[i][c]]

----------------------------------------------------------------------------
(* The inputs: the csv file, the test fraction, the seeded generator *)

\* The rows a csv file is made of.  The last one has a non-positive weight.
CsvRows ==
    { [mpg |-> 1, acceleration |-> 1, weight |-> 1, origin |-> 1],
      [mpg |-> 2, acceleration |-> 2, weight |-> 2, origin |-> 1],
      [mpg |-> 2, acceleration |-> 3, weight |-> 4, origin |-> 2],
      [mpg |-> 1, acceleration |-> 3, weight |-> 0, origin |-> 2] }

\* The three all-positive rows, in a fixed order, for the reference dataset.
DocPattern ==
    << [mpg |-> 1, acceleration |-> 1, weight |-> 1, origin |-> 1],
       [mpg |-> 2, acceleration |-> 2, weight |-> 2, origin |-> 1],
       [mpg |-> 2, acceleration |-> 3, weight |-> 4, origin |-> 2] >>

\* Stand-ins for the 392-row auto-mpg.csv, which is not part of the source.
DocDatasets == { [i \in 1..DocRows |-> DocPattern[((i + k) % 3) + 1]] : k \in {0, 1} }

\* The enumerated files: every file of at most MaxRows rows.
SmallDatasets == UNION { [1..n -> CsvRows] : n \in 0..MaxRows }

\* test_size as a fraction <<num, den>>; 1/5 is the notebook's 0.2.  For both
\* values the ceiling of the float product test_size * n is the ceiling of the
\* exact product (1/2 is exact; 0.2 * 5k rounds to k).
TestSizes == { <<1, 5>>, <<1, 2>> }

Perms(n) == { p \in [1..n -> 0..(n - 1)] : \A i, j \in 1..n : p[i] = p[j] => i = j }

\* For the reference dataset, a family of permutations of 0..391.
DocPerms == { [i \in 1..DocRows |-> (a * (i - 1) + s) % DocRows] : a \in {1, 3}, s \in {0, 100} }

\* What RandomState(seed).permutation(n) may return.
Candidates(n) == IF n <= MaxRows THEN Perms(n) ELSE DocPerms

----------------------------------------------------------------------------
(* The pure steps of the first cell *)

Min(S) == CHOOSE x \in S : \A z \in S : x <= z

Max(S) == CHOOSE x \in S : \A z \in S : x >= z

\* (acc-min(acc))/(max(acc)-min(acc)), on a non-empty column
min_max(col) ==
    LET lo == Min(Range(col))
        hi == Max(Range(col))
    IN  [i \in DOMAIN col |-> FDiv(col[i] - lo, hi - lo)]

\* np.log, in units of ln 2: finite for a positive number only.
np_log(w) ==
    IF w > 0 THEN [fin |-> TRUE, v |-> CHOOSE k \in 0..w : 2 ^ k = w]
    ELSE [fin |-> FALSE, v |-> 0]

\* (x-np.mean(x))/np.sqrt(np.var(x)), population variance.  With n rows, sum S
\* and d_i = n*x_i - S, the square of row i's value is n*d_i^2 / SUM_j d_j^2.
standardize(logcol) ==
    LET n == Len(logcol)
        S == Sum([i \in DOMAIN logcol |-> logcol[i].v])
        d == [i \in DOMAIN logcol |-> n * logcol[i].v - S]
        Q == Sum([i \in DOMAIN logcol |-> d[i] * d[i]])
        ok == (\A i \in DOMAIN logcol : logcol[i].fin) /\ Q # 0
    IN  [i \in DOMAIN logcol |->
            IF ok THEN [sgn |-> Sign(d[i]), sq |-> FDiv(n * d[i] * d[i], Q)]
            ELSE [sgn |-> 0, sq |-> NaN]]

\* pd.get_dummies(col, drop_first=True): one indicator per category but the first
get_dummies(col) ==
    LET cats == Range(col)
        kept == IF cats = {} THEN {} ELSE cats \ {Min(cats)}
    IN  [i \in DOMAIN col |-> [c \in kept |-> IF col[i] = c THEN 1 ELSE 0]]

\* pd.concat([mpg, scaled_acc, scaled_weight, orig_dummies], axis=1)
concat(m, sa, sw, od) ==
    [i \in DOMAIN m |-> [idx |-> i - 1, mpg |-> m[i], acc |-> sa[i],
                         weight |-> sw[i], orig |-> od[i]]]

----------------------------------------------------------------------------
(* The state *)

VARIABLES
    csv,            \* the rows of auto-mpg.csv
    test_size,      \* the test_size argument, <<num, den>>
    mt,             \* the seeded generator: seed |-> the permutation it yields
    pc,             \* the step to run next; "done" or "error" at the end
    err,            \* the step that raised, "" if none
    rerun,          \* TRUE once the notebook has been restarted and run again
    names,          \* the names bound in the kernel
    stdout,         \* what the print of the four sizes wrote
    split_log,      \* the (train, test) row labels of every split so far
    data, acc, logweight, scaled_acc, scaled_weight, orig_dummies, mpg, data_fin,
    X, y,
    X_train, X_test, y_train, y_test,
    linreg, y_hat_train, y_hat_test,
    train_residuals, test_residuals,
    mse_train, mse_test,
    train_mse, test_mse

inputs == <<csv, test_size, mt>>

cell1 == <<data, acc, logweight, scaled_acc, scaled_weight, orig_dummies, mpg, data_fin>>

cell2 == <<X, y>>

cell3 == <<X_train, X_test, y_train, y_test>>

cell5 == <<linreg, y_hat_train, y_hat_test>>

cell6 == <<train_residuals, test_residuals>>

cell7 == <<mse_train, mse_test>>

cell8 == <<train_mse, test_mse>>

vars == <<inputs, pc, err, rerun, names, stdout, split_log,
          cell1, cell2, cell3, cell5, cell6, cell7, cell8>>

\* The kernel's namespace: every name the notebook binds, with its value.
ns ==
    [data |-> data, acc |-> acc, logweight |-> logweight,
     scaled_acc |-> scaled_acc, scaled_weight |-> scaled_weight,
     orig_dummies |-> orig_dummies, mpg |-> mpg, data_fin |-> data_fin,
     X |-> X, y |-> y,
     X_train |-> X_train, X_test |-> X_test, y_train |-> y_train, y_test |-> y_test,
     linreg |-> linreg, y_hat_train |-> y_hat_train, y_hat_test |-> y_hat_test,
     train_residuals |-> train_residuals, test_residuals |-> test_residuals,
     mse_train |-> mse_train, mse_test |-> mse_test,
     train_mse |-> train_mse, test_mse |-> test_mse]

\* A fresh kernel: nothing is bound (an unbound name holds <<>>).
Fresh ==
    /\ pc = "load" /\ err = "" /\ names = {} /\ stdout = <<>>
    /\ data = <<>> /\ acc = <<>> /\ logweight = <<>> /\ scaled_acc = <<>>
    /\ scaled_weight = <<>> /\ orig_dummies = <<>> /\ mpg = <<>> /\ data_fin = <<>>
    /\ X = <<>> /\ y = <<>>
    /\ X_train = <<>> /\ X_test = <<>> /\ y_train = <<>> /\ y_test = <<>>
    /\ linreg = <<>> /\ y_hat_train = <<>> /\ y_hat_test = <<>>
    /\ train_residuals = <<>> /\ test_residuals = <<>>
    /\ mse_train = <<>> /\ mse_test = <<>>
    /\ train_mse = <<>> /\ test_mse = <<>>

Init ==
    /\ \/ csv \in SmallDatasets
       \/ csv \in DocDatasets
    /\ test_size \in TestSizes
    /\ mt \in [{random_state} -> Candidates(Len(csv))]
    /\ rerun = FALSE
    /\ split_log = <<>>
    /\ Fresh

\* A statement raised: the run stops at this step.
Raise(step) == pc' = "error" /\ err' = step

----------------------------------------------------------------------------
(* Cell 1: load and derive *)

\* data = pd.read_csv('auto-mpg.csv')
Load ==
    /\ pc = "load"
    /\ data' = [i \in DOMAIN csv |->
                  [idx |-> i - 1, mpg |-> csv[i].mpg, acceleration |-> csv[i].acceleration,
                   weight |-> csv[i].weight, origin |-> csv[i].origin]]
    /\ names' = names \cup {"data"}
    /\ pc' = "derive"
    /\ UNCHANGED <<inputs, err, rerun, stdout, split_log,
                   acc, logweight, scaled_acc, scaled_weight, orig_dummies, mpg, data_fin,
                   cell2, cell3, cell5, cell6, cell7, cell8>>

\* acc ... data_fin = pd.concat([...], axis=1).  min(acc) raises on an empty
\* column; nothing else in the cell raises.
Derive ==
    /\ pc = "derive"
    /\ acc' = Column(data, "acceleration")
    /\ logweight' = [i \in DOMAIN data |-> np_log(data[i].weight)]
    /\ IF Len(data) = 0
       THEN /\ Raise("derive")
            /\ names' = names \cup {"acc", "logweight"}
            /\ UNCHANGED <<scaled_acc, scaled_weight, orig_dummies, mpg, data_fin>>
       ELSE /\ scaled_acc' = min_max(acc')
            /\ scaled_weight' = standardize(logweight')
            /\ orig_dummies' = get_dummies(Column(data, "origin"))
            /\ mpg' = Column(data, "mpg")
            /\ data_fin' = concat(mpg', scaled_acc', scaled_weight', orig_dummies')
            /\ names' = names \cup {"acc", "logweight", "scaled_acc", "scaled_weight",
                                    "orig_dummies", "mpg", "data_fin"}
            /\ pc' = "build"
            /\ UNCHANGED err
    /\ UNCHANGED <<inputs, rerun, stdout, split_log, data,
                   cell2, cell3, cell5, cell6, cell7, cell8>>

----------------------------------------------------------------------------
(* Cell 2: the model table, the target and the features *)

\* y = data[['mpg']]
target(tbl) == [i \in DOMAIN tbl |-> [idx |-> tbl[i].idx, mpg |-> tbl[i].mpg]]

\* X = data.drop(['mpg'], axis=1)
drop_mpg(tbl) ==
    [i \in DOMAIN tbl |-> [idx |-> tbl[i].idx, acc |-> tbl[i].acc,
                           weight |-> tbl[i].weight, orig |-> tbl[i].orig]]

\* data = pd.concat([mpg, scaled_acc, scaled_weight, orig_dummies], axis=1)
Build ==
    /\ pc = "build"
    /\ data' = concat(mpg, scaled_acc, scaled_weight, orig_dummies)
    /\ y' = target(data')
    /\ X' = drop_mpg(data')
    /\ names' = names \cup {"X", "y"}
    /\ pc' = "split"
    /\ UNCHANGED <<inputs, err, rerun, stdout, split_log,
                   acc, logweight, scaled_acc, scaled_weight, orig_dummies, mpg, data_fin,
                   cell3, cell5, cell6, cell7, cell8>>

----------------------------------------------------------------------------
(* Cell 3: train_test_split(X, y, test_size=0.2, random_state=42) *)

\* ceil(n * num/den)
Ceil(n, f) == (n * f[1] + f[2] - 1) \div f[2]

\* floor(n * num/den)
Floor(n, f) == (n * f[1]) \div f[2]

\* Python's round(n * num/den): to the nearest integer, a tie to the even one
Round(n, f) ==
    LET q == (n * f[1]) \div f[2]
        twice == 2 * ((n * f[1]) % f[2])
    IN  IF twice < f[2] THEN q
        ELSE IF twice > f[2] THEN q + 1
        ELSE IF q % 2 = 0 THEN q ELSE q + 1

\* Mutant: the test size truncated instead of rounded up.
validate_shuffle_split_floor(n_samples, ts) ==
    LET n_test == Floor(n_samples, ts)
    IN  [n_train |-> n_samples - n_test, n_test |-> n_test]

\* Mutant: the test size rounded to the nearest integer.
validate_shuffle_split_round(n_samples, ts) ==
    LET n_test == Round(n_samples, ts)
    IN  [n_train |-> n_samples - n_test, n_test |-> n_test]

\* sklearn's sizes for a float test_size and no train_size:
\* n_test = ceil(test_size * n_samples), n_train = n_samples - n_test.
validate_shuffle_split(n_samples, ts) ==
    LET n_test == Ceil(n_samples, ts)
    IN  [n_train |-> n_samples - n_test, n_test |-> n_test]

\* Mutant: no random_state, so the global generator, whose state differs from
\* call to call, decides the permutation.
rng_permutation_unseeded(p) == TRUE

\* rng = RandomState(random_state); rng.permutation(n): p is what it returns.
rng_permutation(p) == p = mt[random_state]

\* The rows of tbl at the positions ind, in the order of ind.
safe_indexing(tbl, ind) == [k \in DOMAIN ind |-> tbl[ind[k] + 1]]

\* Mutant: the train slice starts one position early and shares a row with test.
train_test_split_overlap(Xt, yt, p, sz) ==
    LET ind_test == SubSeq(p, 1, sz.n_test)
        ind_train == SubSeq(p, sz.n_test, sz.n_test + sz.n_train)
    IN  [X_train |-> safe_indexing(Xt, ind_train), X_test |-> safe_indexing(Xt, ind_test),
         y_train |-> safe_indexing(yt, ind_train), y_test |-> safe_indexing(yt, ind_test)]

Reverse(q) == [k \in DOMAIN q |-> q[Len(q) + 1 - k]]

\* Mutant: the target is indexed in another order than the features.
train_test_split_misaligned(Xt, yt, p, sz) ==
    LET ind_test == SubSeq(p, 1, sz.n_test)
        ind_train == SubSeq(p, sz.n_test + 1, sz.n_test + sz.n_train)
    IN  [X_train |-> safe_indexing(Xt, ind_train), X_test |-> safe_indexing(Xt, ind_test),
         y_train |-> safe_indexing(yt, Reverse(ind_train)),
         y_test |-> safe_indexing(yt, Reverse(ind_test))]

\* ind_test = permutation[:n_test]; ind_train = permutation[n_test:n_test+n_train];
\* every array is indexed by the same two index lists.
train_test_split(Xt, yt, p, sz) ==
    LET ind_test == SubSeq(p, 1, sz.n_test)
        ind_train == SubSeq(p, sz.n_test + 1, sz.n_test + sz.n_train)
    IN  [X_train |-> safe_indexing(Xt, ind_train), X_test |-> safe_indexing(Xt, ind_test),
         y_train |-> safe_indexing(yt, ind_train), y_test |-> safe_indexing(yt, ind_test)]

Split ==
    /\ pc = "split"
    /\ LET sz == validate_shuffle_split(Len(X), test_size)
       IN  IF sz.n_train = 0
           THEN \* ValueError: "the resulting train set will be empty"
                \* (with ceil and n >= 1 the test set never is)
                /\ Raise("split")
                /\ UNCHANGED <<names, split_log, cell3>>
           ELSE \E p \in Candidates(Len(X)) :
                  /\ rng_permutation(p)
                  /\ LET r == train_test_split(X, y, p, sz)
                     IN  /\ X_train' = r.X_train
                         /\ X_test' = r.X_test
                         /\ y_train' = r.y_train
                         /\ y_test' = r.y_test
                  /\ split_log' = Append(split_log,
                                     [train |-> Column(X_train', "idx"),
                                      test |-> Column(X_test', "idx")])
                  /\ names' = names \cup {"X_train", "X_test", "y_train", "y_test"}
                  /\ pc' = "print"
                  /\ UNCHANGED err
    /\ UNCHANGED <<inputs, rerun, stdout, cell1, cell2, cell5, cell6, cell7, cell8>>

\* print(len(X_train), len(X_test), len(y_train), len(y_test))
PrintLen ==
    /\ pc = "print"
    /\ stdout' = <<Len(X_train), Len(X_test), Len(y_train), Len(y_test)>>
    /\ pc' = "fit"
    /\ UNCHANGED <<inputs, err, rerun, names, split_log,
                   cell1, cell2, cell3, cell5, cell6, cell7, cell8>>

----------------------------------------------------------------------------
(* Cell 5: fit and predict *)

\* The fits: an intercept and a coefficient on the scaled acceleration.  The
\* least-squares solver is not reproduced: fit yields any of these, and the
\* coefficients of the other columns are 0 in all of them.
Models ==
    { [fitted |-> TRUE, intercept_ |-> 1, coef_ |-> 1],
      [fitted |-> TRUE, intercept_ |-> 2, coef_ |-> 0] }

\* LinearRegression()
Unfitted == [fitted |-> FALSE, intercept_ |-> 0, coef_ |-> 0]

RowFinite(r) == IsFinite(r.acc) /\ IsFinite(r.weight.sq)

AllFinite(tbl) == \A i \in DOMAIN tbl : RowFinite(tbl[i])

\* Xt with the mean of its acc column subtracted from every row.
centered(Xt) ==
    LET mean == QDivInt(QSum(Column(Xt, "acc")), Len(Xt))
    IN  [k \in DOMAIN Xt |-> [Xt[k] EXCEPT !.acc = QSub(@, mean)]]

\* Mutant: LinearRegression(copy_X=False), which centers X_train in place.
Fit_copy_X_false ==
    /\ pc = "fit"
    /\ names' = names \cup {"linreg"}
    /\ IF AllFinite(X_train)
       THEN /\ \E m \in Models : linreg' = m
            /\ X_train' = centered(X_train)
            /\ pc' = "predict"
            /\ UNCHANGED err
       ELSE /\ linreg' = Unfitted
            /\ Raise("fit")
            /\ UNCHANGED X_train
    /\ UNCHANGED <<inputs, rerun, stdout, split_log, y_hat_train, y_hat_test,
                   cell1, cell2, X_test, y_train, y_test, cell6, cell7, cell8>>

\* linreg = LinearRegression(); linreg.fit(X_train, y_train).  fit validates its
\* input and raises on NaN or infinity.
Fit ==
    /\ pc = "fit"
    /\ names' = names \cup {"linreg"}
    /\ IF AllFinite(X_train)
       THEN /\ \E m \in Models : linreg' = m
            /\ pc' = "predict"
            /\ UNCHANGED err
       ELSE /\ linreg' = Unfitted
            /\ Raise("fit")
    /\ UNCHANGED <<inputs, rerun, stdout, split_log, y_hat_train, y_hat_test,
                   cell1, cell2, cell3, cell6, cell7, cell8>>

\* linreg.predict(Xt): X.coef_ + intercept_, an array without row labels
predict(m, Xt) ==
    [k \in DOMAIN Xt |-> QAdd(QInt(m.intercept_), QMul(QInt(m.coef_), Xt[k].acc))]

Predict ==
    /\ pc = "predict"
    /\ y_hat_train' = predict(linreg, X_train)
    /\ y_hat_test' = predict(linreg, X_test)
    /\ names' = names \cup {"y_hat_train", "y_hat_test"}
    /\ pc' = "residuals"
    /\ UNCHANGED <<inputs, err, rerun, stdout, split_log, linreg,
                   cell1, cell2, cell3, cell6, cell7, cell8>>

----------------------------------------------------------------------------
(* Cells 6 to 8: residuals and mean squared errors *)

\* y_hat - y_true: position by position, with the labels of y_true
residuals(yh, yt) ==
    [k \in DOMAIN yt |-> [idx |-> yt[k].idx, mpg |-> QSub(yh[k], QInt(yt[k].mpg))]]

Residuals ==
    /\ pc = "residuals"
    /\ train_residuals' = residuals(y_hat_train, y_train)
    /\ test_residuals' = residuals(y_hat_test, y_test)
    /\ names' = names \cup {"train_residuals", "test_residuals"}
    /\ pc' = "mse"
    /\ UNCHANGED <<inputs, err, rerun, stdout, split_log,
                   cell1, cell2, cell3, cell5, cell7, cell8>>

\* (y_true - y_hat)**2, position by position
squared_errors(yt, yh) ==
    [k \in DOMAIN yt |-> LET e == QSub(QInt(yt[k].mpg), yh[k]) IN QMul(e, e)]

\* Mutant: the errors are summed without being squared.
mse_unsquared(yt, yh) ==
    QDivInt(QSum([k \in DOMAIN yt |-> QSub(QInt(yt[k].mpg), yh[k])]), Len(yt))

\* np.sum((y_true - y_hat)**2)/len(y_true)
mse(yt, yh) == QDivInt(QSum(squared_errors(yt, yh)), Len(yt))

MSE ==
    /\ pc = "mse"
    /\ mse_train' = mse(y_train, y_hat_train)
    /\ mse_test' = mse(y_test, y_hat_test)
    /\ names' = names \cup {"mse_train", "mse_test"}
    /\ pc' = "sklearn_mse"
    /\ UNCHANGED <<inputs, err, rerun, stdout, split_log,
                   cell1, cell2, cell3, cell5, cell6, cell8>>

\* sklearn.metrics.mean_squared_error: the average of the squared errors
mean_squared_error(y_true, y_pred) ==
    LET n == Len(y_true)
    IN  QSum([k \in DOMAIN y_true |-> QDivInt(squared_errors(y_true, y_pred)[k], n)])

SklearnMSE ==
    /\ pc = "sklearn_mse"
    /\ train_mse' = mean_squared_error(y_train, y_hat_train)
    /\ test_mse' = mean_squared_error(y_test, y_hat_test)
    /\ names' = names \cup {"train_mse", "test_mse"}
    /\ pc' = "done"
    /\ UNCHANGED <<inputs, err, rerun, stdout, split_log,
                   cell1, cell2, cell3, cell5, cell6, cell7>>

----------------------------------------------------------------------------
(* Running the notebook again: restart the kernel, run all cells *)

Restart ==
    /\ pc \in {"done", "error"}
    /\ ~rerun
    /\ rerun' = TRUE
    /\ pc' = "load" /\ err' = "" /\ names' = {} /\ stdout' = <<>>
    /\ data' = <<>> /\ acc' = <<>> /\ logweight' = <<>> /\ scaled_acc' = <<>>
    /\ scaled_weight' = <<>> /\ orig_dummies' = <<>> /\ mpg' = <<>> /\ data_fin' = <<>>
    /\ X' = <<>> /\ y' = <<>>
    /\ X_train' = <<>> /\ X_test' = <<>> /\ y_train' = <<>> /\ y_test' = <<>>
    /\ linreg' = <<>> /\ y_hat_train' = <<>> /\ y_hat_test' = <<>>
    /\ train_residuals' = <<>> /\ test_residuals' = <<>>
    /\ mse_train' = <<>> /\ mse_test' = <<>>
    /\ train_mse' = <<>> /\ test_mse' = <<>>
    /\ UNCHANGED <<inputs, split_log>>

Next ==
    \/ Load \/ Derive \/ Build \/ Split \/ PrintLen \/ Fit \/ Predict
    \/ Residuals \/ MSE \/ SklearnMSE \/ Restart

Spec == Init /\ [][Next]_vars

----------------------------------------------------------------------------
(* The split, read off the state *)

TrainIdx == Column(X_train, "idx")

TestIdx == Column(X_test, "idx")

NoRepeat(q) == \A i, j \in DOMAIN q : q[i] = q[j] => i = j

\* The least integer k with k >= n * num/den
LeastIntegerAtLeast(n, f) == CHOOSE k \in 0..n : k * f[2] >= n * f[1] /\ (k - 1) * f[2] < n * f[1]

----------------------------------------------------------------------------
(* C1 *)

\* C1: once the split has run, the train and the test partition hold disjoint
\* sets of row labels, no label twice, and together they hold every label
\* 0..n-1 of the table that was split.
C1_PartitionsDisjointExhaustive ==
    "X_train" \in names =>
        /\ Range(TrainIdx) \cap Range(TestIdx) = {}
        /\ Range(TrainIdx) \cup Range(TestIdx) = 0..(Len(X) - 1)
        /\ NoRepeat(TrainIdx) /\ NoRepeat(TestIdx)

C1_Witness ==
    /\ "X_train" \in names
    /\ Len(X) = 3
    /\ Len(X_test) = 2
    /\ Len(X_train) = 1

----------------------------------------------------------------------------
(* C2 *)

\* C2: every run of the split step on the same file, with the same seed and
\* the same test fraction, gives the same row labels at the same positions of
\* the train and of the test partition.
C2_SplitDeterministic ==
    \A i, j \in DOMAIN split_log : split_log[i] = split_log[j]

C2_Witness ==
    /\ Len(split_log) = 2
    /\ rerun
    /\ Len(split_log[2].train) >= 2

----------------------------------------------------------------------------
(* C3 *)

\* C3, as claimed: the test partition is the first round(n*f) labels of the
\* seeded permutation and the train partition the rest.
C3_TestIsFirstRound ==
    "X_train" \in names =>
        LET n == Len(X)
            k == Round(n, test_size)
        IN  /\ TestIdx = SubSeq(mt[random_state], 1, k)
            /\ TrainIdx = SubSeq(mt[random_state], k + 1, n)

\* C3, amended: the test partition is the first ceil(n*f) labels of the seeded
\* permutation and the train partition the remaining n - ceil(n*f).
C3_TestIsFirstCeil ==
    "X_train" \in names =>
        LET n == Len(X)
            k == LeastIntegerAtLeast(n, test_size)
        IN  /\ TestIdx = SubSeq(mt[random_state], 1, k)
            /\ TrainIdx = SubSeq(mt[random_state], k + 1, n)
            /\ Len(X_test) = k
            /\ Len(X_train) = n - k

\* A split where rounding up and rounding to nearest differ.
C3_Witness ==
    /\ "X_train" \in names
    /\ Round(Len(X), test_size) # LeastIntegerAtLeast(Len(X), test_size)
    /\ Len(X_test) = 1
    /\ Len(X_train) = 1

----------------------------------------------------------------------------
(* C4 *)

\* C4: on the 392 rows of the documented run, with test fraction 0.2, the
\* split gives 313 training rows and 79 test rows, of the features and of the
\* target, and these are the sizes printed.
C4_DocumentedSizes ==
    (Len(csv) = DocRows /\ test_size = <<1, 5>> /\ "X_train" \in names) =>
        /\ Len(X_train) = 313 /\ Len(X_test) = 79
        /\ Len(y_train) = 313 /\ Len(y_test) = 79
        /\ pc \notin {"split", "print"} => stdout = <<313, 79, 313, 79>>

C4_Witness ==
    /\ Len(csv) = DocRows
    /\ test_size = <<1, 5>>
    /\ pc = "done"
    /\ stdout = <<313, 79, 313, 79>>

----------------------------------------------------------------------------
(* C5 *)

\* Cells 1 and 2 as a function of the file: the feature table X.
features(file) ==
    drop_mpg(concat(Column(file, "mpg"),
                    min_max(Column(file, "acceleration")),
                    standardize([i \in DOMAIN file |-> np_log(file[i].weight)]),
                    get_dummies(Column(file, "origin"))))

\* Cells 1 to 3 as a function of the file: the training feature matrix.
X_train_of(file) ==
    train_test_split(features(file),
                     [i \in DOMAIN file |-> [idx |-> i - 1, mpg |-> file[i].mpg]],
                     mt[random_state],
                     validate_shuffle_split(Len(file), test_size)).X_train

\* C5: the training feature matrix, and so the model fit on it, does not
\* depend on the raw values of a row assigned to the test partition: the
\* notebook run on a file that differs from this one in one test row only
\* builds the same training feature matrix.  Only files whose features are all
\* finite are compared.
C5_NoLeakage ==
    ("X_train" \in names /\ AllFinite(X)) =>
        \A i \in Range(TestIdx) : \A r \in CsvRows :
            LET other == [csv EXCEPT ![i + 1] = r]
            IN  AllFinite(features(other)) => X_train_of(other) = X_train

----------------------------------------------------------------------------
(* C6 *)

InUnitInterval(q) == IsFinite(q) /\ 0 <= q[1] /\ q[1] <= q[2]

\* C6: every value of scaled_acc lies in [0,1], it is 0 at a row that holds the
\* column's minimum and 1 at a row that holds the column's maximum, whatever
\* the acceleration column is.
C6_MinMaxInUnitInterval ==
    "scaled_acc" \in names =>
        \A i \in DOMAIN scaled_acc :
            /\ InUnitInterval(scaled_acc[i])
            /\ acc[i] = Min(Range(acc)) => scaled_acc[i] = QInt(0)
            /\ acc[i] = Max(Range(acc)) => scaled_acc[i] = QInt(1)

\* The same for a column that holds at least two different values.
MinMaxOnVaryingColumn ==
    ("scaled_acc" \in names /\ Cardinality(Range(acc)) >= 2) =>
        \A i \in DOMAIN scaled_acc :
            /\ InUnitInterval(scaled_acc[i])
            /\ acc[i] = Min(Range(acc)) => scaled_acc[i] = QInt(0)
            /\ acc[i] = Max(Range(acc)) => scaled_acc[i] = QInt(1)

----------------------------------------------------------------------------
(* C7 *)

Exact(yt, yh) == \A k \in DOMAIN yt : yh[k] = QInt(yt[k].mpg)

NonNegativeAndZeroIffExact(m, yt, yh) ==
    /\ IsFinite(m)
    /\ m[1] >= 0
    /\ m[1] = 0 <=> Exact(yt, yh)

\* C7: the mean squared error of a partition, by the formula and by sklearn's
\* function, is at least 0, and it is 0 exactly when every prediction of the
\* partition equals its target.
C7_MSENonNegativeZeroIffExact ==
    /\ "mse_train" \in names =>
          /\ NonNegativeAndZeroIffExact(mse_train, y_train, y_hat_train)
          /\ NonNegativeAndZeroIffExact(mse_test, y_test, y_hat_test)
    /\ "train_mse" \in names =>
          /\ NonNegativeAndZeroIffExact(train_mse, y_train, y_hat_train)
          /\ NonNegativeAndZeroIffExact(test_mse, y_test, y_hat_test)

\* Both cases in one run: an exact fit of the train rows, an error on a test row.
C7_Witness ==
    /\ "mse_test" \in names
    /\ Len(y_train) >= 2
    /\ mse_train = QInt(0)
    /\ mse_test[1] > 0

----------------------------------------------------------------------------
(* C8 *)

\* A column that reaches a scaling formula with a single value in it.
ConstantColumn ==
    /\ Len(csv) >= 1
    /\ \/ Cardinality(Range(Column(csv, "acceleration"))) = 1
       \/ Cardinality(Range(Column(csv, "weight"))) = 1

\* A value that np.log turns into -inf or NaN.
NonPositiveLog == \E i \in DOMAIN csv : csv[i].weight <= 0

\* A test fraction that leaves a partition without rows.
EmptyPartition ==
    /\ Len(csv) >= 1
    /\ LET sz == validate_shuffle_split(Len(csv), test_size)
       IN  sz.n_train = 0 \/ sz.n_test = 0

\* The steps after the first cell have not started, or the first cell raised.
StoppedAtDerive == pc \in {"load", "derive"} \/ (pc = "error" /\ err = "derive")

\* The steps after the split have not started, or the split raised.
StoppedAtSplit ==
    pc \in {"load", "derive", "build", "split"} \/ (pc = "error" /\ err = "split")

\* C8: a constant column or a non-positive value under the log stops the run
\* with an error in the step that derives the features, and a test fraction
\* that empties a partition stops it in the split; so the split never runs on
\* features that are not finite, and neither do fit, predict and the MSE.
C8_FailFast ==
    /\ (ConstantColumn \/ NonPositiveLog) => StoppedAtDerive
    /\ EmptyPartition => (StoppedAtDerive \/ StoppedAtSplit)
    /\ "X_train" \in names => AllFinite(X_train) /\ AllFinite(X_test)
    /\ "y_hat_train" \in names =>
          /\ \A k \in DOMAIN y_hat_train : IsFinite(y_hat_train[k])
          /\ \A k \in DOMAIN y_hat_test : IsFinite(y_hat_test[k])
    /\ "mse_train" \in names => IsFinite(mse_train) /\ IsFinite(mse_test)

\* What does hold: fit rejects what is not finite, so no prediction and no
\* metric is computed from it; and the empty partition stops at the split.
NonFiniteStopsAtFit ==
    /\ (linreg # <<>> /\ linreg.fitted) => AllFinite(X_train)
    /\ "y_hat_train" \in names =>
          /\ \A k \in DOMAIN y_hat_train : IsFinite(y_hat_train[k])
          /\ \A k \in DOMAIN y_hat_test : IsFinite(y_hat_test[k])
    /\ "mse_train" \in names => IsFinite(mse_train) /\ IsFinite(mse_test)
    /\ EmptyPartition => (StoppedAtDerive \/ StoppedAtSplit)

----------------------------------------------------------------------------
(* C9 *)

\* A step of a top-to-bottom run: any step but the restart of the kernel.
RunStep == pc' # "load"

\* C9, as claimed: in a top-to-bottom run no step changes or rebinds a name
\* that is already bound.
C9_NothingRebound ==
    [][RunStep => \A k \in names : k \in names' /\ ns'[k] = ns[k]]_vars

\* C9, amended: in a top-to-bottom run no step changes or rebinds a bound name
\* other than data; data is rebound by the step that builds X and y.
C9_NothingReboundButData ==
    [][RunStep => \A k \in names \ {"data"} : k \in names' /\ ns'[k] = ns[k]]_vars

\* The run has passed the step that rebinds data: data no longer holds the
\* loaded rows but the model table, and the run went on to its end.
C9_Witness ==
    /\ pc = "done"
    /\ Len(data) >= 2
    /\ data = concat(mpg, scaled_acc, scaled_weight, orig_dummies)
    /\ Column(data, "acc") = scaled_acc

----------------------------------------------------------------------------
(* C10 *)

\* The prediction for the row with label i of the table that was split.
PredictionOfRow(i) == predict(linreg, <<X[i + 1]>>)[1]

\* The residual and the squared error of the row with label i.
ResidualOfRow(i) == QSub(PredictionOfRow(i), QInt(y[i + 1].mpg))

SquaredErrorOfRow(i) == QMul(ResidualOfRow(i), ResidualOfRow(i))

\* Position k of a partition pairs the prediction and the target of one row.
AlignedResiduals(res, Xp) ==
    /\ Len(res) = Len(Xp)
    /\ \A k \in DOMAIN Xp :
          /\ res[k].idx = Xp[k].idx
          /\ res[k].mpg = ResidualOfRow(Xp[k].idx)

AlignedMSE(m, Xp) ==
    m = QDivInt(QSum([k \in DOMAIN Xp |-> SquaredErrorOfRow(Xp[k].idx)]), Len(Xp))

\* C10: the split selects the same row labels, in the same order, for X_train
\* and y_train and for X_test and y_test, each row with the features and the
\* target it has in the table; so the sizes agree, and every residual and
\* every squared error pairs the prediction and the target of one row.
C10_FeaturesAndTargetsAligned ==
    /\ "X_train" \in names =>
          /\ Column(X_train, "idx") = Column(y_train, "idx")
          /\ Column(X_test, "idx") = Column(y_test, "idx")
          /\ Len(X_train) = Len(y_train) /\ Len(X_test) = Len(y_test)
          /\ \A k \in DOMAIN X_train :
                X_train[k] = X[X_train[k].idx + 1] /\ y_train[k] = y[y_train[k].idx + 1]
          /\ \A k \in DOMAIN X_test :
                X_test[k] = X[X_test[k].idx + 1] /\ y_test[k] = y[y_test[k].idx + 1]
    /\ "train_residuals" \in names =>
          /\ AlignedResiduals(train_residuals, X_train)
          /\ AlignedResiduals(test_residuals, X_test)
    /\ "mse_train" \in names =>
          /\ AlignedMSE(mse_train, X_train)
          /\ AlignedMSE(mse_test, X_test)

\* A run to the MSE whose train partition is not in the order of the table.
C10_Witness ==
    /\ "mse_train" \in names
    /\ Len(X_train) >= 2
    /\ X_train[1].idx > X_train[2].idx
    /\ mse_train[1] > 0

====
